---- MODULE Spec2Model ----
(***************************************************************************)
(* Dorky (src/dorky.py): the Playwright-driven Google scraper.  The model  *)
(* covers the URL normalizer, the Google-host filter, the result           *)
(* extractor, the captcha detector and recovery loop, the per-page retry   *)
(* loop (fetch_single_page) and the query/page/dedupe/write loop of main.  *)
(* Strings are TLA+ strings handled character by character (Len, SubSeq,   *)
(* \o), so parsing and rendering are computed, not assumed.                *)
(***************************************************************************)
EXTENDS Integers, Sequences, FiniteSets, TLC

(***************************************************************************)
(* Bounds of the model.                                                    *)
(***************************************************************************)
MaxQueries == 2
MaxPages == 2
MaxTries == 2
MaxWait == 3

(***************************************************************************)
(* String helpers (Python str methods used by the code).                   *)
(***************************************************************************)
\* The value of Body at v, with v evaluated once.
Bind(v, Body(_)) == CHOOSE r \in {Body(x) : x \in {v}} : TRUE

CharAt(s, i) == SubSeq(s, i, i)

\* The printable ASCII characters of the sample data, in code-point order.
ASCII == " !#$%&()*+,-./0123456789:;<=>?@ABCDEFGHIJKLMNOPQRSTUVWXYZ[]^_abcdefghijklmnopqrstuvwxyz{|}~"

UPPER == "ABCDEFGHIJKLMNOPQRSTUVWXYZ"

LOWERCASE == "abcdefghijklmnopqrstuvwxyz"

DIGITS == "0123456789"

\* str.find(sub, from): the least 1-based index >= from where sub occurs, 0 if none.
Occurrences(s, sub, from) ==
    {i \in from..(Len(s) - Len(sub) + 1) : SubSeq(s, i, i + Len(sub) - 1) = sub}

Find(s, sub, from) ==
    LET hits == Occurrences(s, sub, from)
    IN  IF hits = {} THEN 0 ELSE CHOOSE i \in hits : \A j \in hits : i <= j

\* str.rfind(sub): the greatest index where sub occurs, 0 if none.
RFind(s, sub) ==
    LET hits == Occurrences(s, sub, 1)
    IN  IF hits = {} THEN 0 ELSE CHOOSE i \in hits : \A j \in hits : i >= j

Contains(s, sub) == Find(s, sub, 1) # 0

StartsWith(s, p) == Len(p) <= Len(s) /\ SubSeq(s, 1, Len(p)) = p

\* The rank of a one-character string in code-point order.
Ord(c) == Find(ASCII, c, 1)

LowerChar(c) ==
    LET i == Find(UPPER, c, 1)
    IN  IF i = 0 THEN c ELSE CharAt(LOWERCASE, i)

\* str.lower()
RECURSIVE Lower(_)
Lower(s) ==
    IF Len(s) = 0 THEN ""
    ELSE IF Len(s) = 1 THEN LowerChar(s)
    ELSE LET h == Len(s) \div 2
         IN  Lower(SubSeq(s, 1, h)) \o Lower(SubSeq(s, h + 1, Len(s)))

\* str.split(sep): the list of the pieces between the occurrences of sep.
RECURSIVE Split(_, _)
Split(s, sep) ==
    Bind(Find(s, sep, 1), LAMBDA i :
        IF i = 0 THEN <<s>>
        ELSE <<SubSeq(s, 1, i - 1)>> \o Split(SubSeq(s, i + Len(sep), Len(s)), sep))

\* str.split(sep, 1): at most one split.
Split1(s, sep) ==
    Bind(Find(s, sep, 1), LAMBDA i :
        IF i = 0 THEN <<s>>
        ELSE <<SubSeq(s, 1, i - 1), SubSeq(s, i + Len(sep), Len(s))>>)

\* str.replace(old, new) for a one-character old.
\* "sep".join(list)
RECURSIVE Join(_, _)
Join(l, sep) ==
    IF Len(l) = 0 THEN ""
    ELSE IF Len(l) = 1 THEN l[1]
    ELSE l[1] \o sep \o Join(Tail(l), sep)

\* str.replace(old, new)
Replace(s, old, new) == Join(Split(s, old), new)

\* Python's order on strings: code point by code point, a prefix first.
RECURSIVE StrLess(_, _)
StrLess(a, b) ==
    IF Len(b) = 0 THEN FALSE
    ELSE IF Len(a) = 0 THEN TRUE
    ELSE IF CharAt(a, 1) = CharAt(b, 1)
         THEN StrLess(SubSeq(a, 2, Len(a)), SubSeq(b, 2, Len(b)))
    ELSE Ord(CharAt(a, 1)) < Ord(CharAt(b, 1))

\* sorted(list): insertion of each element before the first greater one.
RECURSIVE InsertSorted(_, _)
InsertSorted(x, l) ==
    IF Len(l) = 0 THEN <<x>>
    ELSE IF StrLess(x, l[1]) THEN <<x>> \o l
    ELSE <<l[1]>> \o InsertSorted(x, Tail(l))

RECURSIVE Sorted(_)
Sorted(l) ==
    IF Len(l) = 0 THEN <<>>
    ELSE InsertSorted(l[Len(l)], Sorted(SubSeq(l, 1, Len(l) - 1)))

InList(x, l) == \E i \in 1..Len(l) : l[i] = x

\* urllib.parse.unquote: %XX with two hex digits becomes the character XX
\* (the characters of HEXCODES; any other escape is outside the sample data).
HEXCODES == <<"20", "23", "25", "26", "2f", "3a", "3d", "3f">>

HEXCHARS == <<" ", "#", "%", "&", "/", ":", "=", "?">>

\* One piece after a %: its two hex digits decoded, or the % kept.
UnquotePiece(piece) ==
    IF Len(piece) >= 2 /\ InList(Lower(SubSeq(piece, 1, 2)), HEXCODES)
    THEN LET k == CHOOSE j \in 1..Len(HEXCODES) :
                      HEXCODES[j] = Lower(SubSeq(piece, 1, 2))
         IN  HEXCHARS[k] \o SubSeq(piece, 3, Len(piece))
    ELSE "%" \o piece

RECURSIVE UnquotePieces(_)
UnquotePieces(pieces) ==
    IF Len(pieces) = 0 THEN ""
    ELSE UnquotePiece(pieces[1]) \o UnquotePieces(Tail(pieces))

unquote(s) ==
    LET bits == Split(s, "%")
    IN  bits[1] \o UnquotePieces(Tail(bits))

(***************************************************************************)
(* urllib.parse as the code uses it.                                       *)
(***************************************************************************)
SCHEME_CHARS == LOWERCASE \o UPPER \o DIGITS \o "+-."

AllIn(s, chars) == \A i \in 1..Len(s) : Contains(chars, CharAt(s, i))

\* The least index >= from of a character of "/?#" in s, Len(s) + 1 if none
\* (urllib.parse._splitnetloc).
NetlocEnd(s, from) ==
    LET ends == {i \in from..Len(s) : Contains("/?#", CharAt(s, i))}
    IN  IF ends = {} THEN Len(s) + 1 ELSE CHOOSE i \in ends : \A j \in ends : i <= j

\* urllib.parse._splitparams: the ;parameters of the last path segment.
SplitParams(url) ==
    LET slash == RFind(url, "/")
        i == Find(url, ";", IF slash = 0 THEN 1 ELSE slash)
    IN  IF i = 0 THEN <<url, "">>
        ELSE <<SubSeq(url, 1, i - 1), SubSeq(url, i + 1, Len(url))>>

\* urllib.parse.uses_params
USES_PARAMS == <<"", "ftp", "hdl", "prospero", "http", "imap", "https", "shttp",
                 "rtsp", "rtspu", "sip", "sips", "mms", "sftp", "tel">>

\* urllib.parse.urlparse(u), in the order urlsplit works: the scheme, the
\* netloc, the fragment, the query, and the ;parameters of the path.
\* ok = FALSE stands for the ValueError raised on a netloc with an unmatched
\* square bracket.
HasScheme(u, colon) ==
    /\ colon > 1
    /\ Contains(LOWERCASE \o UPPER, CharAt(u, 1))
    /\ AllIn(SubSeq(u, 1, colon - 1), SCHEME_CHARS)

BadNetloc(netloc) ==
    \/ (Contains(netloc, "[") /\ ~Contains(netloc, "]"))
    \/ (Contains(netloc, "]") /\ ~Contains(netloc, "["))

ParsePath(scheme, netloc, url, query, fragment) ==
    {[ok |-> ~BadNetloc(netloc), scheme |-> scheme, netloc |-> netloc,
      path |-> pp[1], params |-> pp[2], query |-> query, fragment |-> fragment] :
        pp \in {IF InList(scheme, USES_PARAMS) THEN SplitParams(url)
                ELSE <<url, "">>}}

ParseQuery(scheme, netloc, url, fragment) ==
    UNION {ParsePath(scheme, netloc, qs[1], IF Len(qs) = 2 THEN qs[2] ELSE "",
                     fragment) : qs \in {Split1(url, "?")}}

ParseFragment(scheme, netloc, rest) ==
    UNION {ParseQuery(scheme, netloc, fr[1], IF Len(fr) = 2 THEN fr[2] ELSE "") :
               fr \in {Split1(rest, "#")}}

ParseNetloc(scheme, rest) ==
    IF StartsWith(rest, "//")
    THEN UNION {ParseFragment(scheme, SubSeq(rest, 3, nend - 1),
                              SubSeq(rest, nend, Len(rest))) :
                    nend \in {NetlocEnd(rest, 3)}}
    ELSE ParseFragment(scheme, "", rest)

ParseScheme(u) ==
    UNION {IF HasScheme(u, colon)
           THEN UNION {ParseNetloc(scheme, SubSeq(u, colon + 1, Len(u))) :
                           scheme \in {Lower(SubSeq(u, 1, colon - 1))}}
           ELSE ParseNetloc("", u) : colon \in {Find(u, ":", 1)}}

urlparse(u) == CHOOSE p \in ParseScheme(u) : TRUE

\* urllib.parse.parse_qsl(qs, keep_blank_values=True): the (name, value)
\* pairs of the non-empty &-separated fields, + and %XX decoded.
RECURSIVE QslOfFields(_)
QslOfFields(fields) ==
    IF Len(fields) = 0 THEN <<>>
    ELSE LET nv == Split1(fields[1], "=")
             name == unquote(Replace(nv[1], "+", " "))
             value == IF Len(nv) = 2 THEN unquote(Replace(nv[2], "+", " ")) ELSE ""
         IN  (IF Len(fields[1]) = 0 THEN <<>> ELSE <<<<name, value>>>>)
             \o QslOfFields(Tail(fields))

parse_qsl(qs) == QslOfFields(Split(qs, "&"))

(***************************************************************************)
(* Filtering and normalization helpers.                                    *)
(***************************************************************************)
TRACKING_PREFIXES == <<"utm_", "fbclid", "gclid", "icid", "mc_eid">>

\* Mutant of is_google_host: the youtube.com test is missing.
is_google_host_no_youtube(host) ==
    IF host = "" THEN FALSE
    ELSE Bind(Lower(host), LAMBDA h :
             \/ Contains(h, "google.")
             \/ Contains(h, "googleusercontent.com"))

is_google_host(host) ==
    IF host = "" THEN FALSE
    ELSE Bind(Lower(host), LAMBDA h :
             \/ Contains(h, "google.")
             \/ Contains(h, "googleusercontent.com")
             \/ Contains(h, "youtube.com"))

\* Mutant of IsTracking: only the utm_ prefix is known.
IsTrackingUtmOnly(lowk) == StartsWith(lowk, "utm_")

IsTracking(lowk) ==
    \E i \in 1..Len(TRACKING_PREFIXES) : StartsWith(lowk, TRACKING_PREFIXES[i])

\* Mutant of KeptKeys: the values stay in the key.
RECURSIVE KeptKeysWithValues(_)
KeptKeysWithValues(qitems) ==
    IF Len(qitems) = 0 THEN <<>>
    ELSE LET lowk == Lower(qitems[1][1])
         IN  (IF IsTracking(lowk) THEN <<>> ELSE <<lowk \o "=" \o qitems[1][2]>>)
             \o KeptKeysWithValues(Tail(qitems))

\* keys: the lower-cased names of the non-tracking parameters, in order.
RECURSIVE KeptKeys(_)
KeptKeys(qitems) ==
    IF Len(qitems) = 0 THEN <<>>
    ELSE LET lowk == Lower(qitems[1][1])
         IN  (IF IsTracking(lowk) THEN <<>> ELSE <<lowk>>) \o KeptKeys(Tail(qitems))

\* seen_k: keys without repetitions, first occurrence kept.
RECURSIVE Dedup(_)
Dedup(l) ==
    IF Len(l) = 0 THEN <<>>
    ELSE LET front == Dedup(SubSeq(l, 1, Len(l) - 1))
         IN  IF InList(l[Len(l)], front) THEN front ELSE Append(front, l[Len(l)])

RECURSIVE WithEquals(_)
WithEquals(l) ==
    IF Len(l) = 0 THEN <<>> ELSE <<l[1] \o "=">> \o WithEquals(Tail(l))

\* Lines 91-109, for a URL that parsed to p with the parameter names seen_k.
RenderKey(p, seen_k) ==
    LET scheme == Lower(IF p.scheme = "" THEN "http" ELSE p.scheme)
        host == Lower(p.netloc)
        path == IF p.path = "" THEN "/" ELSE p.path
    IN  IF Len(seen_k) > 0
        THEN scheme \o "://" \o host \o path \o "?"
             \o Join(WithEquals(Sorted(seen_k)), "&")
        ELSE scheme \o "://" \o host \o path

normalize_url_for_dedupe(u) ==
    Bind(urlparse(u), LAMBDA p :
        IF ~p.ok THEN u
        ELSE Bind(Dedup(KeptKeys(parse_qsl(p.query))), LAMBDA seen_k :
                 RenderKey(p, seen_k)))

(***************************************************************************)
(* Result extraction.  An HTML document is modelled by what the code reads *)
(* of it: the href values of its anchors, in document order.               *)
(***************************************************************************)
RECURSIVE PrimaryTargets(_)
PrimaryTargets(hrefs) ==
    IF Len(hrefs) = 0 THEN <<>>
    ELSE (IF StartsWith(hrefs[1], "/url?q=")
          THEN <<unquote(Split(Split(hrefs[1], "/url?q=")[2], "&")[1])>>
          ELSE <<>>) \o PrimaryTargets(Tail(hrefs))

RECURSIVE FallbackTargets(_)
FallbackTargets(hrefs) ==
    IF Len(hrefs) = 0 THEN <<>>
    ELSE (IF StartsWith(hrefs[1], "http://") \/ StartsWith(hrefs[1], "https://")
          THEN <<hrefs[1]>> ELSE <<>>) \o FallbackTargets(Tail(hrefs))

\* Mutant of extract_serp_urls: the plain hrefs are always collected.
extract_serp_urls_both(hrefs) ==
    Dedup(PrimaryTargets(hrefs) \o FallbackTargets(hrefs))

extract_serp_urls(hrefs) ==
    Bind(PrimaryTargets(hrefs), LAMBDA results :
        Dedup(IF Len(results) = 0 THEN FallbackTargets(hrefs) ELSE results))


(***************************************************************************)
(* Sample data: result URLs and the pages the browser may show.  A page is *)
(* what the code reads of it: page.url, the text of page.content(), the    *)
(* href values of its anchors, whether a recaptcha iframe selector and     *)
(* whether a result-container selector (div#search, div#rso, div.g,        *)
(* div.yuRUbf a) match, and whether page.content() raises.                 *)
(***************************************************************************)
UrlA == "https://example.com/page?b=2&a=1#frag"

UrlA2 == "HTTPS://Example.COM/page?a=9&b=3&utm_source=x"

UrlB == "http://other.org/x"

UrlC == "http://other.org/x?id=7"

UrlC2 == "http://other.org/x?id=8"

UrlG == "https://www.google.com/maps?q=1"

UrlY == "https://m.YouTube.com/watch?v=1"

UrlU == "https://lh3.googleusercontent.com/img"

UrlA3 == "HTTPS://Example.COM/page?a=9&b=3&utm_source=y"

UrlX == "http://[bad/x?id=1"

UrlX2 == "http://[bad/x?id=2"

SerpUrl == "https://www.google.com/search?q=x&hl=en&gl=US&start=0"

Doc(url, text, hrefs, iframe, markup, raises) ==
    [url |-> url, text |-> text, hrefs |-> hrefs, iframe |-> iframe,
     markup |-> markup, raises |-> raises]

PAGES ==
    "serp1" :> Doc(SerpUrl, "About 3 results",
                   <<"/search?q=x&start=10",
                     "/url?q=https://example.com/page%3Fb%3D2%26a%3D1%23frag&sa=U&ved=1",
                     "/url?q=http://other.org/x%3Fid%3D7&sa=U",
                     "/url?q=HTTPS://Example.COM/page%3Fa%3D9%26b%3D3%26utm_source%3Dx&sa=U",
                     "https://policies.google.com/terms">>, FALSE, TRUE, FALSE)
    @@ "serp2" :> Doc(SerpUrl, "About 7 results",
                   <<"/url?q=https://www.google.com/maps%3Fq%3D1&sa=U",
                     "/url?q=HTTPS://Example.COM/page%3Fa%3D9%26b%3D3%26utm_source%3Dx&sa=U",
                     "/url?q=https://m.YouTube.com/watch%3Fv%3D1&sa=U",
                     "/url?q=https://lh3.googleusercontent.com/img&sa=U",
                     "/url?q=http://[bad/x%3Fid%3D1&sa=U",
                     "/url?q=http://[bad/x%3Fid%3D2&sa=U",
                     "/url?q=HTTPS://Example.COM/page%3Fa%3D9%26b%3D3%26utm_source%3Dy">>,
                   FALSE, TRUE, FALSE)
    @@ "plain" :> Doc(SerpUrl, "Results",
                   <<"#", "https://www.google.com/preferences",
                     "http://other.org/x?id=7", "http://other.org/x?id=8",
                     "http://other.org/x?id=7">>, FALSE, TRUE, FALSE)
    @@ "empty" :> Doc(SerpUrl, "Results", <<"/search?q=x&start=10">>,
                   FALSE, TRUE, FALSE)
    @@ "blank" :> Doc(SerpUrl, "", <<>>, FALSE, FALSE, FALSE)
    @@ "nores" :> Doc(SerpUrl, "Your search - x - did not match any documents.",
                   <<"https://support.google.com/websearch",
                     "http://other.org/x">>, FALSE, TRUE, FALSE)
    @@ "sorry" :> Doc("https://www.google.com/sorry/index?continue=x",
                   "Our systems have detected unusual traffic", <<>>,
                   TRUE, FALSE, FALSE)
    @@ "login" :> Doc("https://Accounts.Google.com/signin", "Sign in", <<>>,
                   FALSE, FALSE, FALSE)
    @@ "why" :> Doc(SerpUrl, "Why did this happen?", <<>>, FALSE, FALSE, FALSE)
    @@ "robot" :> Doc(SerpUrl, "Are you a robot? About 3 results",
                   <<"/url?q=http://other.org/x%3Fid%3D7&sa=U">>, FALSE, TRUE, FALSE)
    @@ "iframe" :> Doc(SerpUrl, "Results",
                   <<"/url?q=http://other.org/x%3Fid%3D7&sa=U">>, TRUE, FALSE, FALSE)
    @@ "broken" :> Doc(SerpUrl, "", <<>>, FALSE, FALSE, TRUE)

PageNames == DOMAIN PAGES

\* page.content(): the text and the anchors' href values.
Html(pg) == pg.text \o " " \o Join(pg.hrefs, " ")

Range(f) == {f[x] : x \in DOMAIN f}

(***************************************************************************)
(* Captcha detection and the checks of one recovery poll.                  *)
(***************************************************************************)
looks_like_captcha(pg) ==
    Bind(<<Lower(pg.url), Lower(Html(pg))>>, LAMBDA low :
        LET u == low[1]
            html == low[2]
        IN  IF Contains(u, "/sorry/") \/ Contains(u, "accounts.google.com") THEN TRUE
            ELSE IF pg.raises THEN TRUE
            ELSE IF Contains(html, "our systems have detected unusual traffic")
                 THEN TRUE
            ELSE IF Contains(html, "why did this happen") THEN TRUE
            ELSE IF \/ Contains(html, "i'm not a robot")
                    \/ Contains(html, "are you a robot")
                 THEN TRUE
            ELSE pg.iframe)

\* One pass of the loop body of wait_for_serp_after_manual_solve on the page
\* the reload left: "serp" (return True), or "wait" (sleep and poll again).
PollCheck(pg) ==
    Bind(<<Lower(pg.url), Lower(Html(pg))>>, LAMBDA low :
        LET cur == low[1]
            html_low == low[2]
        IN  IF Contains(cur, "/sorry/") \/ Contains(cur, "accounts.google.com")
            THEN "wait"
            ELSE IF pg.raises THEN "wait"
            ELSE IF \/ Contains(html_low, "our systems have detected unusual traffic")
                    \/ Contains(html_low, "why did this happen")
                 THEN "wait"
            ELSE IF \/ pg.markup
                    \/ \E i \in 1..Len(pg.hrefs) : StartsWith(pg.hrefs[i], "/url?q=")
                 THEN "serp"
            ELSE IF Contains(html_low, "/url?q=") THEN "serp"
            ELSE "wait")

\* The code's pure functions on the sample data, evaluated once.
Blocked == [n \in PageNames |-> looks_like_captcha(PAGES[n])]

Poll == [n \in PageNames |-> PollCheck(PAGES[n])]

NoResults ==
    [n \in PageNames |-> Contains(Lower(Html(PAGES[n])), "did not match any documents")]

Extracted == [n \in PageNames |-> extract_serp_urls(PAGES[n].hrefs)]

SampleUrls == UNION {Range(Extracted[n]) : n \in PageNames}

KeyOf == [u \in SampleUrls |-> normalize_url_for_dedupe(u)]

\* Mutant of SkipGoogle: a URL that does not parse is skipped.
SkipGoogleFailClosed(u) ==
    Bind(urlparse(u), LAMBDA parsed :
        ~parsed.ok \/ is_google_host(Lower(parsed.netloc)))

\* Lines 378-386 of main: the URL is skipped when it parses and its lower-cased
\* netloc is a Google host; a URL that does not parse falls through.
SkipGoogle(u) ==
    Bind(urlparse(u), LAMBDA parsed :
        parsed.ok /\ is_google_host(Lower(parsed.netloc)))

Skipped == [u \in SampleUrls |-> SkipGoogle(u)]


(***************************************************************************)
(* The run: main and fetch_single_page.                                    *)
(*   nq, args          the queries read and the command line (fixed)       *)
(*   pc                where the run is: "main" (head of the page loop),   *)
(*                     "fetch" (head of the attempt loop), "prompt"        *)
(*                     (blocked in input()), "recover" (in the polling     *)
(*                     loop), "ret" (fetch_single_page has returned),      *)
(*                     "write" (in the loop over urls), "done"             *)
(*   qi, pnum          the query (1-based) and page of the current unit    *)
(*   attempt, last_err the attempt loop's variables                        *)
(*   elapsed           time.time() - start in the recovery loop, counting  *)
(*                     the sleeps between polls                            *)
(*   ret_urls, ret_err what fetch_single_page returned                     *)
(*   idx               the position of the loop over urls                  *)
(*   seen_normalized   the seen-set                                        *)
(*   outfile           the lines of the output file                        *)
(* History (not read by any action):                                       *)
(*   pre        the number of lines the file held before the run           *)
(*   navs       page.goto calls of the current unit                        *)
(*   fails      failed attempts of the current unit                        *)
(*   evts       what the current attempt has done, in order                *)
(*   page       the page (a name in PAGES) whose content the current       *)
(*              attempt has read at line 270, NoPage otherwise             *)
(*   tock       flips at every pass of the recovery loop that polls again  *)
(*   firstOf    for each key, the first URL with it the write loop met     *)
(*   stopped    "user-abort" or "no-results" once a unit of the current    *)
(*              query has returned it, None before                         *)
(*   started    the queries with an attempt made on their page 0           *)
(* Calls of the two pure functions on their own:                           *)
(*   fn_pc        which call is being made and how far it is               *)
(*   norm_u       the argument u of normalize_url_for_dedupe               *)
(*   norm_key     its result                                               *)
(*   norm_again   the result of normalizing norm_key                       *)
(*   html_hrefs   the argument of extract_serp_urls (the hrefs of html)    *)
(*   extract_out  its result                                               *)
(***************************************************************************)
VARIABLES nq, args, pc, qi, pnum, attempt, last_err, elapsed, page,
          ret_urls, ret_err, idx, seen_normalized, outfile,
          pre, navs, fails, evts, tock, firstOf, stopped, started,
          fn_pc, norm_u, norm_key, norm_again, html_hrefs, extract_out

progVars == <<nq, args, pc, qi, pnum, attempt, last_err, elapsed, page,
              ret_urls, ret_err, idx, seen_normalized, outfile,
              pre, navs, fails, evts, tock, firstOf, stopped, started>>

fnVars == <<fn_pc, norm_u, norm_key, norm_again, html_hrefs, extract_out>>

vars == <<progVars, fnVars>>

None == "None"

NoPage == "about:blank"

\* poll_interval of the recovery loop (line 257); MaxWait stands for its max_wait.
poll_interval == 2

config == <<nq, args>>

outVars == <<seen_normalized, outfile, pre, firstOf>>

Init ==
    /\ nq \in 0..MaxQueries
    /\ args \in [pages : 0..MaxPages, tries : 0..MaxTries, headful : BOOLEAN]
    /\ pc = "main"
    /\ qi = 1
    /\ pnum = 0
    /\ attempt = 1
    /\ last_err = None
    /\ elapsed = 0
    /\ page = NoPage
    /\ ret_urls = <<>>
    /\ ret_err = None
    /\ idx = 1
    /\ seen_normalized = {}
    /\ outfile \in {<<>>, <<UrlA>>}
    /\ pre = Len(outfile)
    /\ navs = 0
    /\ fails = 0
    /\ evts = <<>>
    /\ tock = FALSE
    /\ firstOf = {}
    /\ stopped = None
    /\ started = {}
    /\ fn_pc = "idle"
    /\ norm_u = ""
    /\ norm_key = ""
    /\ norm_again = ""
    /\ html_hrefs = <<>>
    /\ extract_out = <<>>

(***************************************************************************)
(* main: the loops over queries and pages (lines 364-427).                 *)
(***************************************************************************)
\* Line 368: fetch_single_page is called for the next page of the query.
CallFetch ==
    /\ pc = "main"
    /\ qi <= nq
    /\ pnum < args.pages
    /\ pc' = "fetch"
    /\ attempt' = 1
    /\ last_err' = None
    /\ navs' = 0
    /\ fails' = 0
    /\ evts' = <<>>
    /\ UNCHANGED <<config, fnVars, outVars, qi, pnum, elapsed, page, ret_urls, ret_err, idx,
                   tock, stopped, started>>

\* Line 427: the page loop of the query is over; the next query.
QueryDone ==
    /\ pc = "main"
    /\ qi <= nq
    /\ pnum >= args.pages
    /\ qi' = qi + 1
    /\ pnum' = 0
    /\ stopped' = None
    /\ UNCHANGED <<config, fnVars, outVars, pc, attempt, last_err, elapsed, page, ret_urls,
                   ret_err, idx, navs, fails, evts, tock, started>>

\* Lines 428-440: every query is done; the file and the browser are closed.
RunDone ==
    /\ pc = "main"
    /\ qi > nq
    /\ pc' = "done"
    /\ UNCHANGED <<config, fnVars, outVars, qi, pnum, attempt, last_err, elapsed, page,
                   ret_urls, ret_err, idx, navs, fails, evts, tock, stopped,
                   started>>

(***************************************************************************)
(* fetch_single_page (lines 236-295).                                      *)
(***************************************************************************)
\* An attempt has begun on the unit (line 242).
Attempted == started' = IF pnum = 0 THEN started \cup {qi} ELSE started

\* return urls, err
Return(urls, err) ==
    /\ pc' = "ret"
    /\ ret_urls' = urls
    /\ ret_err' = err
    /\ stopped' = IF err \in {"user-abort", "no-results"} THEN err ELSE stopped
    /\ elapsed' = 0
    /\ UNCHANGED <<attempt, last_err, fails>>

\* Mutant of FailAttempt: no backoff after the failure.
FailAttemptNoBackoff(reason, done) ==
    /\ last_err' = reason
    /\ attempt' = attempt + 1
    /\ fails' = fails + 1
    /\ evts' = done
    /\ pc' = "fetch"
    /\ elapsed' = 0
    /\ UNCHANGED <<ret_urls, ret_err, stopped>>

\* Mutant of FailAttempt: the failed attempt is not counted.
FailAttemptNoCount(reason, done) ==
    /\ last_err' = reason
    /\ attempt' = attempt
    /\ fails' = fails + 1
    /\ evts' = done \o <<"backoff">>
    /\ pc' = "fetch"
    /\ elapsed' = 0
    /\ UNCHANGED <<ret_urls, ret_err, stopped>>

\* A failed attempt: last_err is set, the backoff of line 261, 266 or 294 is
\* slept and the loop goes to the next attempt.
FailAttempt(reason, done) ==
    /\ last_err' = reason
    /\ attempt' = attempt + 1
    /\ fails' = fails + 1
    /\ evts' = done \o <<"backoff">>
    /\ pc' = "fetch"
    /\ elapsed' = 0
    /\ UNCHANGED <<ret_urls, ret_err, stopped>>

\* Mutant of ReadPage: the URLs are returned with the reason of the last failure.
ReadPageKeepsError(pg, raises, done) ==
    IF raises
    THEN /\ FailAttempt("playwright", done \o <<"read-error">>)
         /\ page' = NoPage
    ELSE /\ page' = pg
         /\ IF NoResults[pg]
            THEN /\ Return(<<>>, "no-results")
                 /\ evts' = done \o <<"read", "no-results">>
            ELSE IF Len(Extracted[pg]) > 0
            THEN /\ Return(Extracted[pg], last_err)
                 /\ evts' = done \o <<"read", "extract">>
            ELSE FailAttempt("no-urls", done \o <<"read", "extract">>)

\* Lines 269-284: the page is read; no-results, urls, or a failed attempt.
\* raises: page.content() of line 270 raises a Playwright error.
ReadPage(pg, raises, done) ==
    IF raises
    THEN /\ FailAttempt("playwright", done \o <<"read-error">>)
         /\ page' = NoPage
    ELSE /\ page' = pg
         /\ IF NoResults[pg]
            THEN /\ Return(<<>>, "no-results")
                 /\ evts' = done \o <<"read", "no-results">>
            ELSE IF Len(Extracted[pg]) > 0
            THEN /\ Return(Extracted[pg], None)
                 /\ evts' = done \o <<"read", "extract">>
            ELSE FailAttempt("no-urls", done \o <<"read", "extract">>)

\* Mutant of Exhausted: the reason is dropped.
ExhaustedNoReason ==
    /\ pc = "fetch"
    /\ attempt > args.tries
    /\ Return(<<>>, None)
    /\ UNCHANGED <<config, fnVars, outVars, qi, pnum, page, idx, navs, evts, tock, started>>

\* Line 295: the attempts are used up.
Exhausted ==
    /\ pc = "fetch"
    /\ attempt > args.tries
    /\ Return(<<>>, last_err)
    /\ UNCHANGED <<config, fnVars, outVars, qi, pnum, page, idx, navs, evts, tock, started>>

\* Line 244 raises before page.goto is called.
HeadersFail ==
    /\ pc = "fetch"
    /\ attempt <= args.tries
    /\ \E kind \in {"playwright", "error"} : FailAttempt(kind, <<"headers-error">>)
    /\ Attempted
    /\ page' = NoPage
    /\ UNCHANGED <<config, fnVars, outVars, qi, pnum, idx, navs, tock>>

\* Mutant of GotoFail: the exception is not caught and ends the run.
GotoFailFatal ==
    /\ pc = "fetch"
    /\ attempt <= args.tries
    /\ navs' = navs + 1
    /\ pc' = "done"
    /\ evts' = <<"goto", "goto-error">>
    /\ Attempted
    /\ UNCHANGED <<config, fnVars, outVars, qi, pnum, attempt, last_err, elapsed, page,
                   ret_urls, ret_err, idx, fails, tock, stopped>>

\* Line 245 raises: a timeout, a Playwright error or another exception.
GotoFail ==
    /\ pc = "fetch"
    /\ attempt <= args.tries
    /\ navs' = navs + 1
    /\ \E kind \in {"timeout", "playwright", "error"} :
           FailAttempt(kind, <<"goto", "goto-error">>)
    /\ Attempted
    /\ page' = NoPage
    /\ UNCHANGED <<config, fnVars, outVars, qi, pnum, idx, tock>>

\* Mutant of GotoBlockedHeadless: the continue is missing and the blocked
\* page is read.
GotoBlockedHeadlessReads ==
    /\ pc = "fetch"
    /\ attempt <= args.tries
    /\ ~args.headful
    /\ navs' = navs + 1
    /\ \E pg \in PageNames :
           /\ Blocked[pg]
           /\ ReadPage(pg, FALSE, <<"goto", "blocked">>)
    /\ Attempted
    /\ UNCHANGED <<config, fnVars, outVars, qi, pnum, idx, tock>>

\* Lines 247, 263-267: blocked without an operator.
GotoBlockedHeadless ==
    /\ pc = "fetch"
    /\ attempt <= args.tries
    /\ ~args.headful
    /\ \E pg \in PageNames : Blocked[pg]
    /\ navs' = navs + 1
    /\ FailAttempt("captcha-headless", <<"goto", "blocked">>)
    /\ Attempted
    /\ page' = NoPage
    /\ UNCHANGED <<config, fnVars, outVars, qi, pnum, idx, tock>>

\* Lines 247-253: blocked with a visible browser; the operator is asked.
GotoBlockedHeadful ==
    /\ pc = "fetch"
    /\ attempt <= args.tries
    /\ args.headful
    /\ \E pg \in PageNames : Blocked[pg]
    /\ navs' = navs + 1
    /\ pc' = "prompt"
    /\ evts' = <<"goto", "blocked", "prompt">>
    /\ Attempted
    /\ page' = NoPage
    /\ UNCHANGED <<config, fnVars, outVars, qi, pnum, attempt, last_err, elapsed, ret_urls,
                   ret_err, idx, fails, tock, stopped>>

\* Lines 247, 269-284: the page is not blocked and is read.
GotoRead ==
    /\ pc = "fetch"
    /\ attempt <= args.tries
    /\ navs' = navs + 1
    /\ \E pg \in PageNames, raises \in BOOLEAN :
           /\ ~Blocked[pg]
           /\ ReadPage(pg, raises, <<"goto">>)
    /\ Attempted
    /\ UNCHANGED <<config, fnVars, outVars, qi, pnum, idx, tock>>

\* Lines 254-256: Ctrl-C at the prompt.
OperatorAbort ==
    /\ pc = "prompt"
    /\ Return(<<>>, "user-abort")
    /\ evts' = evts \o <<"abort">>
    /\ UNCHANGED <<config, fnVars, outVars, qi, pnum, page, idx, navs, tock, started>>

\* Lines 253, 257, 173: ENTER at the prompt; the recovery loop starts.
OperatorEnter ==
    /\ pc = "prompt"
    /\ pc' = "recover"
    /\ elapsed' = 0
    /\ evts' = evts \o <<"recover">>
    /\ UNCHANGED <<config, fnVars, outVars, qi, pnum, attempt, last_err, page, ret_urls,
                   ret_err, idx, navs, fails, tock, stopped, started>>

(***************************************************************************)
(* wait_for_serp_after_manual_solve (lines 172-210), one loop pass each.   *)
(***************************************************************************)
\* Line 177
TimedOut == elapsed > MaxWait

\* Mutant of Tick: the clock of the loop does not advance.
TickStuck == elapsed

\* time.time() - start after the time.sleep(poll_interval) of lines 190, 195,
\* 207 and 210.
Tick == elapsed + poll_interval

Polled(done) == IF done[Len(done)] = "poll" THEN done ELSE done \o <<"poll">>

\* Lines 177-181 and 258-262: the wait is over; the attempt has failed.
RecoverTimeout ==
    /\ pc = "recover"
    /\ TimedOut
    /\ FailAttempt("captcha-still", evts \o <<"timeout">>)
    /\ page' = NoPage
    /\ tock' = FALSE
    /\ UNCHANGED <<config, fnVars, outVars, qi, pnum, idx, navs, started>>

\* Lines 184-196, 207: the reloaded page is still blocked or shows no result
\* markup; sleep and poll again.
PollWait ==
    /\ pc = "recover"
    /\ ~TimedOut
    /\ \E pg \in PageNames : Poll[pg] = "wait"
    /\ elapsed' = Tick
    /\ tock' = ~tock
    /\ evts' = Polled(evts)
    /\ UNCHANGED <<config, fnVars, outVars, pc, qi, pnum, attempt, last_err, page, ret_urls,
                   ret_err, idx, navs, fails, stopped, started>>

\* Lines 208-210: the reload raises; sleep and poll again.
PollException ==
    /\ pc = "recover"
    /\ ~TimedOut
    /\ elapsed' = Tick
    /\ tock' = ~tock
    /\ evts' = Polled(evts)
    /\ UNCHANGED <<config, fnVars, outVars, pc, qi, pnum, attempt, last_err, page, ret_urls,
                   ret_err, idx, navs, fails, stopped, started>>

\* Mutant of PollSerp: after a successful recovery the loop goes to its next
\* attempt without reading the page.
PollSerpRetry ==
    /\ pc = "recover"
    /\ ~TimedOut
    /\ \E pg \in PageNames : Poll[pg] = "serp"
    /\ FailAttempt("no-urls", Polled(evts) \o <<"recovered">>)
    /\ page' = NoPage
    /\ tock' = FALSE
    /\ UNCHANGED <<config, fnVars, outVars, qi, pnum, idx, navs, started>>

\* Lines 197-206 return True; fetch_single_page goes on to lines 269-284.
PollSerp ==
    /\ pc = "recover"
    /\ ~TimedOut
    /\ \E pg \in PageNames, raises \in BOOLEAN :
           /\ Poll[pg] = "serp"
           /\ ReadPage(pg, raises, Polled(evts) \o <<"recovered">>)
    /\ tock' = FALSE
    /\ UNCHANGED <<config, fnVars, outVars, qi, pnum, idx, navs, started>>

(***************************************************************************)
(* main: what it does with the result of fetch_single_page (371-425).      *)
(***************************************************************************)
\* The locals of fetch_single_page are gone once main looks at its result.
ResetFetch ==
    /\ attempt' = 1
    /\ last_err' = None
    /\ elapsed' = 0
    /\ page' = NoPage
    /\ navs' = 0
    /\ fails' = 0
    /\ evts' = <<>>
    /\ tock' = FALSE

\* urls and err are dead once main has gone through them.
ResetUnit ==
    /\ ResetFetch
    /\ ret_urls' = <<>>
    /\ ret_err' = None
    /\ idx' = 1

\* Mutant of MainNoResults: no break; the next page of the same query.
MainNoResultsNoBreak ==
    /\ pc = "ret"
    /\ ret_err = "no-results"
    /\ pc' = "main"
    /\ pnum' = pnum + 1
    /\ ResetUnit
    /\ UNCHANGED <<config, fnVars, outVars, qi, stopped, started>>

\* Lines 371-373 and 427: "no-results" breaks out of the page loop.
MainNoResults ==
    /\ pc = "ret"
    /\ ret_err = "no-results"
    /\ pc' = "main"
    /\ qi' = qi + 1
    /\ pnum' = 0
    /\ stopped' = None
    /\ ResetUnit
    /\ UNCHANGED <<config, fnVars, outVars, started>>

\* Lines 375-376: there are urls; the loop over them starts.
MainWriteStart ==
    /\ pc = "ret"
    /\ ret_err # "no-results"
    /\ Len(ret_urls) > 0
    /\ pc' = "write"
    /\ idx' = 1
    /\ ResetFetch
    /\ UNCHANGED <<config, fnVars, outVars, qi, pnum, ret_urls, ret_err, stopped, started>>

\* Lines 419-425: no urls; log, sleep, next page of the same query.
MainNoUrls ==
    /\ pc = "ret"
    /\ ret_err # "no-results"
    /\ Len(ret_urls) = 0
    /\ pc' = "main"
    /\ pnum' = pnum + 1
    /\ ResetUnit
    /\ UNCHANGED <<config, fnVars, outVars, qi, stopped, started>>

\* The lines this run has written.
Written == SubSeq(outfile, pre + 1, Len(outfile))

\* Mutant of IsDuplicate: the key is looked up among the raw URLs written.
IsDuplicateRaw(key) == InList(key, Written)

\* Line 409
IsDuplicate(key) == key \in seen_normalized

\* Mutant of WriteUrl: the line replaces the content of the file.
WriteUrlOverwrite ==
    /\ pc = "write"
    /\ idx <= Len(ret_urls)
    /\ LET u == ret_urls[idx]
           key == KeyOf[u]
       IN  /\ firstOf' = IF \E e \in firstOf : e[1] = key THEN firstOf
                         ELSE firstOf \cup {<<key, u>>}
           /\ IF Skipped[u] \/ IsDuplicate(key)
              THEN UNCHANGED <<seen_normalized, outfile>>
              ELSE /\ seen_normalized' = seen_normalized \cup {key}
                   /\ outfile' = <<u>>
    /\ idx' = idx + 1
    /\ UNCHANGED <<config, fnVars, pc, qi, pnum, attempt, last_err, elapsed, page, ret_urls,
                   ret_err, pre, navs, fails, evts, tock, stopped, started>>

\* Mutant of WriteUrl: the raw URL is added to the seen-set.
WriteUrlRawSeen ==
    /\ pc = "write"
    /\ idx <= Len(ret_urls)
    /\ LET u == ret_urls[idx]
           key == KeyOf[u]
       IN  /\ firstOf' = IF \E e \in firstOf : e[1] = key THEN firstOf
                         ELSE firstOf \cup {<<key, u>>}
           /\ IF Skipped[u] \/ IsDuplicate(key)
              THEN UNCHANGED <<seen_normalized, outfile>>
              ELSE /\ seen_normalized' = seen_normalized \cup {u}
                   /\ outfile' = Append(outfile, u)
    /\ idx' = idx + 1
    /\ UNCHANGED <<config, fnVars, pc, qi, pnum, attempt, last_err, elapsed, page, ret_urls,
                   ret_err, pre, navs, fails, evts, tock, stopped, started>>

\* Lines 376-415: one pass of the loop over urls.
WriteUrl ==
    /\ pc = "write"
    /\ idx <= Len(ret_urls)
    /\ LET u == ret_urls[idx]
           key == KeyOf[u]
       IN  /\ firstOf' = IF \E e \in firstOf : e[1] = key THEN firstOf
                         ELSE firstOf \cup {<<key, u>>}
           /\ IF Skipped[u] \/ IsDuplicate(key)
              THEN UNCHANGED <<seen_normalized, outfile>>
              ELSE /\ seen_normalized' = seen_normalized \cup {key}
                   /\ outfile' = Append(outfile, u)
    /\ idx' = idx + 1
    /\ UNCHANGED <<config, fnVars, pc, qi, pnum, attempt, last_err, elapsed, page, ret_urls,
                   ret_err, pre, navs, fails, evts, tock, stopped, started>>

\* Lines 417-425: the batch is flushed; sleep, next page of the same query.
WriteDone ==
    /\ pc = "write"
    /\ idx > Len(ret_urls)
    /\ pc' = "main"
    /\ pnum' = pnum + 1
    /\ ResetUnit
    /\ UNCHANGED <<config, fnVars, outVars, qi, stopped, started>>

Next ==
    \/ CallFetch
    \/ QueryDone
    \/ RunDone
    \/ Exhausted
    \/ HeadersFail
    \/ GotoFail
    \/ GotoBlockedHeadless
    \/ GotoBlockedHeadful
    \/ GotoRead
    \/ OperatorAbort
    \/ OperatorEnter
    \/ RecoverTimeout
    \/ PollWait
    \/ PollException
    \/ PollSerp
    \/ MainNoResults
    \/ MainWriteStart
    \/ MainNoUrls
    \/ WriteUrl
    \/ WriteDone

Spec == Init /\ [][Next]_vars

\* The recovery loop keeps running: a pass that can be made is made.
RecoverStep == RecoverTimeout \/ PollWait \/ PollException \/ PollSerp

\* A run that starts with a new output file; the recovery loop reads neither
\* the file nor the seen-set.
FreshInit == Init /\ outfile = <<>>

LiveSpec == FreshInit /\ [][Next]_vars /\ WF_vars(RecoverStep)

(***************************************************************************)
(* The two pure functions called on their own: normalize_url_for_dedupe on *)
(* a URL and then on its own result, extract_serp_urls on the anchors of a *)
(* document.                                                               *)
(***************************************************************************)
\* The URLs given to normalize_url_for_dedupe: every combination of these
\* parts.
SCHEMES == {"", "http://", "HTTPS://"}

HOSTS == {"example.com", "Example.COM"}

PATHS == {"", "/Page"}

QUERIES ==
    {"", "?b=2&a=1", "?b=3&a=&b=4", "?utm_source=a&x=1", "?utm_source=b&x=2",
     "?UTM_Medium=m&gclid=1", "?ID=7", "?x%26y=1", "?x%3Dy=1&x"}

FRAGMENTS == {"", "#frag"}

NormInputs ==
    {s \o h \o p \o q \o f :
        s \in SCHEMES, h \in HOSTS, p \in PATHS, q \in QUERIES, f \in FRAGMENTS}
        \cup {UrlX, UrlA}

\* The anchors of the documents given to extract_serp_urls.
HREFS ==
    {"/url?q=http://a.org/x&sa=U", "/url?q=http://a.org/x&ved=2",
     "/url?q=http://b.org/y%3Fid%3D1%26k%3D2&sa=U", "https://c.org/z",
     "http://a.org/x", "#top"}

MaxAnchors == 3

RECURSIVE SeqsUpTo(_, _)
SeqsUpTo(S, n) ==
    IF n = 0 THEN {<<>>}
    ELSE LET shorter == SeqsUpTo(S, n - 1)
         IN  shorter \cup {Append(l, x) : l \in {m \in shorter : Len(m) = n - 1}, x \in S}

HrefInputs == SeqsUpTo(HREFS, MaxAnchors)

FnInit ==
    /\ nq = 0
    /\ args = [pages |-> 0, tries |-> 0, headful |-> FALSE]
    /\ pc = "main"
    /\ qi = 1
    /\ pnum = 0
    /\ attempt = 1
    /\ last_err = None
    /\ elapsed = 0
    /\ page = NoPage
    /\ ret_urls = <<>>
    /\ ret_err = None
    /\ idx = 1
    /\ seen_normalized = {}
    /\ outfile = <<>>
    /\ pre = 0
    /\ navs = 0
    /\ fails = 0
    /\ evts = <<>>
    /\ tock = FALSE
    /\ firstOf = {}
    /\ stopped = None
    /\ started = {}
    /\ norm_key = ""
    /\ norm_again = ""
    /\ extract_out = <<>>
    /\ \/ fn_pc = "normalize" /\ norm_u \in NormInputs /\ html_hrefs = <<>>
       \/ fn_pc = "extract" /\ norm_u = "" /\ html_hrefs \in HrefInputs

\* key = normalize_url_for_dedupe(u)
Normalize ==
    /\ fn_pc = "normalize"
    /\ norm_key' = normalize_url_for_dedupe(norm_u)
    /\ fn_pc' = "normalized"
    /\ UNCHANGED <<progVars, norm_u, norm_again, html_hrefs, extract_out>>

\* normalize_url_for_dedupe(key)
NormalizeAgain ==
    /\ fn_pc = "normalized"
    /\ norm_again' = normalize_url_for_dedupe(norm_key)
    /\ fn_pc' = "renormalized"
    /\ UNCHANGED <<progVars, norm_u, norm_key, html_hrefs, extract_out>>

\* urls = extract_serp_urls(html)
Extract ==
    /\ fn_pc = "extract"
    /\ extract_out' = extract_serp_urls(html_hrefs)
    /\ fn_pc' = "extracted"
    /\ UNCHANGED <<progVars, norm_u, norm_key, norm_again, html_hrefs>>

FnNext ==
    \/ Normalize
    \/ NormalizeAgain
    \/ Extract

FnSpec == FnInit /\ [][FnNext]_vars

(***************************************************************************)
(* Properties.                                                             *)
(***************************************************************************)
FetchStates == {"fetch", "prompt", "recover"}

\* C1: at every point of a run no two URLs written by the run have the same
\* normalization key, and each written URL is, in raw form, the first URL
\* with its key that the write loop met over all queries and pages so far.
C1_FirstSeenOnly ==
    /\ \A i \in 1..Len(Written) :
           /\ Written[i] \in SampleUrls
           /\ <<KeyOf[Written[i]], Written[i]>> \in firstOf
    /\ \A i, j \in 1..Len(Written) :
           i < j => KeyOf[Written[i]] # KeyOf[Written[j]]

\* UrlA2 of query 2 has just been skipped: UrlA, with the same key, was
\* written for query 1.
C1_Witness ==
    /\ pc = "write"
    /\ qi = 2
    /\ pnum = 0
    /\ ret_urls = Extracted["serp2"]
    /\ idx = 3
    /\ InList(UrlA, Written)
    /\ ~InList(UrlA2, Written)

\* C2: once a unit of query q has returned "user-abort", no further page of
\* q is fetched.
C2_AbortEndsQuery == pc \in FetchStates => stopped # "user-abort"

\* C3: a read page that says "did not match any documents" makes
\* fetch_single_page return no urls and "no-results" on that attempt, no
\* further page of the query is fetched, and main goes to the next query.
C3_NoResultsStopsQuery ==
    /\ [](/\ (InList("read", evts) /\ page # NoPage /\ NoResults[page])
              => (pc = "ret" /\ ret_err = "no-results" /\ ret_urls = <<>>)
          /\ pc \in FetchStates => stopped # "no-results")
    /\ [][(pc = "ret" /\ ret_err = "no-results")
              => (pc' = "main" /\ qi' = qi + 1 /\ pnum' = 0
                  /\ outfile' = outfile /\ seen_normalized' = seen_normalized)]_vars

\* Page 0 of query 1 of 2 said no results on its first attempt, with two
\* pages and two tries configured.
C3_Witness ==
    /\ pc = "ret"
    /\ ret_err = "no-results"
    /\ page = "nores"
    /\ qi = 1
    /\ nq = 2
    /\ pnum = 0
    /\ args.pages = 2
    /\ attempt = 1
    /\ args.tries = 2

\* C4: a unit makes at most `tries` page.goto calls, and every failed
\* attempt has consumed exactly one attempt of the budget.
C4_AttemptBudget ==
    pc \in FetchStates \cup {"ret"} =>
        /\ navs <= args.tries
        /\ attempt <= args.tries + 1
        /\ fails = attempt - 1
        /\ navs <= fails + (IF pc = "fetch" \/ attempt > args.tries THEN 0 ELSE 1)

\* Two tries, both used for a navigation, both failed.
C4_Witness ==
    /\ pc = "ret"
    /\ args.tries = 2
    /\ attempt = 3
    /\ navs = 2
    /\ fails = 2

FailureReasons ==
    {"captcha-headless", "captcha-still", "no-urls", "timeout", "playwright", "error"}

\* C5 as stated: for every configured number of attempts, a unit whose
\* attempts are used up returns no urls and a reason naming the failure.
C5_AnyTries ==
    (pc = "ret" /\ attempt > args.tries)
        => (ret_urls = <<>> /\ ret_err \in FailureReasons)

\* C5, amended: for every configured number of attempts of at least one, a
\* unit whose attempts are used up returns no urls and a reason naming the
\* failure.
C5_ExhaustedReason ==
    (pc = "ret" /\ attempt > args.tries /\ args.tries >= 1)
        => (ret_urls = <<>> /\ ret_err \in FailureReasons)

\* Two tries used up, the last one having extracted nothing.
C5_Witness ==
    /\ pc = "ret"
    /\ args.tries = 2
    /\ attempt > args.tries
    /\ ret_err = "no-urls"

TransportReasons == {"timeout", "playwright", "error"}

\* C6: a transport timeout or error is caught in its attempt and counted as
\* one failed attempt, and it never ends the run: when the run is over an
\* attempt has been made on page 0 of every query (with at least one page
\* and one try configured).
C6_ErrorsNotFatal ==
    /\ (\E e \in {"goto-error", "headers-error", "read-error"} : InList(e, evts))
           => /\ pc \in {"fetch", "ret"}
              /\ last_err \in TransportReasons
              /\ fails = attempt - 1
              /\ fails >= 1
    /\ (pc = "done" /\ args.pages >= 1 /\ args.tries >= 1) => started = 1..nq

\* The first attempt on page 0 of query 2 timed out, the second one has
\* returned urls.
C6_Witness ==
    /\ pc = "ret"
    /\ nq = 2
    /\ qi = 2
    /\ pnum = 0
    /\ attempt = 2
    /\ last_err = "timeout"
    /\ Len(ret_urls) > 0
    /\ started = {1, 2}

\* C7: without a visible browser a block never leads to the prompt or to the
\* recovery loop: the attempt fails with captcha-headless, a backoff is
\* slept and nothing is read or extracted from the blocked page.
C7_HeadlessNoPrompt ==
    ~args.headful =>
        /\ pc \notin {"prompt", "recover"}
        /\ \A e \in {"prompt", "recover", "poll", "recovered"} : ~InList(e, evts)
        /\ InList("blocked", evts)
               => /\ evts = <<"goto", "blocked", "backoff">>
                  /\ last_err = "captcha-headless"
                  /\ pc \in {"fetch", "ret"}
                  /\ fails = attempt - 1

\* The first of two tries was blocked in headless mode.
C7_Witness ==
    /\ ~args.headful
    /\ args.tries = 2
    /\ pc = "fetch"
    /\ attempt = 2
    /\ evts = <<"goto", "blocked", "backoff">>

\* C8: whenever the recovery loop has returned success, the page no longer
\* satisfies looks_like_captcha.
C8_RecoveredMeansUnblocked ==
    (InList("recovered", evts) /\ page # NoPage) => ~Blocked[page]

\* C9: once entered (visible browser, after the prompt) the recovery loop
\* ends, with success or, once the elapsed time exceeds max_wait, with a
\* timeout that is counted as one failed attempt with captcha-still.
C9_RecoveryEnds ==
    /\ (pc = "recover") ~> (pc # "recover")
    /\ [](pc = "recover" => (args.headful /\ InList("prompt", evts)))
    /\ [][(pc = "recover" /\ pc' # "recover")
              => \/ /\ ~TimedOut
                    /\ InList("recovered", evts')
                    /\ ~InList("timeout", evts')
                 \/ /\ TimedOut
                    /\ ~InList("recovered", evts')
                    /\ pc' = "fetch"
                    /\ last_err' = "captcha-still"
                    /\ attempt' = attempt + 1
                    /\ fails' = fails + 1]_vars

\* The recovery loop polled until the time ran out; the attempt has failed.
C9_Witness ==
    /\ pc = "fetch"
    /\ attempt = 2
    /\ last_err = "captcha-still"
    /\ evts = <<"goto", "blocked", "prompt", "recover", "poll", "timeout", "backoff">>

\* The sample URLs whose host contains google., googleusercontent.com or
\* youtube.com, whatever the case of its letters.
GoogleOwned ==
    {u \in SampleUrls :
        Bind(urlparse(u), LAMBDA p :
            /\ p.ok
            /\ \E s \in {"google.", "googleusercontent.com", "youtube.com"} :
                   Contains(Lower(p.netloc), s))}

\* C10: no URL of a Google host is ever written, and none adds its key to
\* the seen-set.
C10_GoogleNeverWritten ==
    /\ \A i \in 1..Len(Written) : Written[i] \notin GoogleOwned
    /\ \A u \in GoogleOwned : KeyOf[u] \notin seen_normalized

\* The loop over the urls of "serp2" has passed the google.com and the
\* YouTube URL and has written the one between them.
C10_Witness ==
    /\ pc = "write"
    /\ ret_urls = Extracted["serp2"]
    /\ idx = 4
    /\ InList(UrlA2, Written)
    /\ ~InList(UrlG, Written)
    /\ ~InList(UrlY, Written)

\* C11: normalizing a key gives the key back.
C11_Idempotent == fn_pc = "renormalized" => norm_again = norm_key

\* The parameter names the key of u is to hold: those of the query of u
\* whose lower-cased form starts with no tracking prefix, lower-cased when
\* `lowered`.
NamesFor(u, lowered) ==
    LET qs == parse_qsl(urlparse(u).query)
        tracked(n) ==
            \E pref \in {"utm_", "fbclid", "gclid", "icid", "mc_eid"} :
                StartsWith(Lower(n), pref)
    IN  {IF lowered THEN Lower(qs[i][1]) ELSE qs[i][1] :
            i \in {j \in 1..Len(qs) : ~tracked(qs[j][1])}}

\* name1=&name2=... for the names of S in increasing order.
RECURSIVE NamesInOrder(_)
NamesInOrder(S) ==
    IF S = {} THEN ""
    ELSE LET least == CHOOSE n \in S : \A m \in S \ {n} : StrLess(n, m)
         IN  least \o "=" \o (IF S = {least} THEN "" ELSE "&" \o NamesInOrder(S \ {least}))

\* scheme://host/path and the names, by the rule of the key format.
KeyByRule(u, lowered, slash) ==
    LET p == urlparse(u)
        names == NamesFor(u, lowered)
    IN  Lower(IF p.scheme = "" THEN "http" ELSE p.scheme) \o "://" \o Lower(p.netloc)
        \o (IF p.path = "" /\ slash THEN "/" ELSE p.path)
        \o (IF names = {} THEN "" ELSE "?" \o NamesInOrder(names))

ShapeOf(u) ==
    LET cut == Split1(u, "?")
        rest == IF Len(cut) = 2 THEN Split1(cut[2], "#") ELSE <<"">>
        fields == Split(rest[1], "&")
    IN  [base |-> cut[1],
         names |-> [i \in 1..Len(fields) |-> Split1(fields[i], "=")[1]],
         fragment |-> IF Len(rest) = 2 THEN rest[2] ELSE ""]

Shape == [u \in SampleUrls |-> ShapeOf(u)]

\* Whether two sample URLs are different and differ only in parameter values.
SameButValues(u, v) == u # v /\ Shape[u] = Shape[v]

\* Whether a sample URL parses.
Parses == [u \in SampleUrls |-> urlparse(u).ok]

ValuePairs == {pair \in SampleUrls \X SampleUrls : SameButValues(pair[1], pair[2])}

ParsedValuePairs == {pair \in ValuePairs : Parses[pair[1]] /\ Parses[pair[2]]}

\* Whether every pair of value-variants has one key / every pair that parses.
AllPairsAgree == \A pair \in ValuePairs : KeyOf[pair[1]] = KeyOf[pair[2]]

ParsedPairsAgree == \A pair \in ParsedValuePairs : KeyOf[pair[1]] = KeyOf[pair[2]]

\* C13 as stated: any two URLs that differ only in the values of their
\* parameters have the same key, and the run never writes both.
C13_ValuesIgnoredAnyUrl ==
    /\ AllPairsAgree
    /\ \A i, j \in 1..Len(Written) :
           i < j => ~SameButValues(Written[i], Written[j])

\* C13, amended: any two URLs that parse and differ only in the values of
\* their parameters have the same key, and the run never writes both.
C13_ValuesIgnored ==
    /\ ParsedPairsAgree
    /\ \A i, j \in 1..Len(Written) :
           (i < j /\ Parses[Written[i]] /\ Parses[Written[j]])
               => ~SameButValues(Written[i], Written[j])

\* The run has written the URL with utm_source=x and has skipped the one
\* with utm_source=y.
C13_Witness ==
    /\ <<UrlA2, UrlA3>> \in ParsedValuePairs
    /\ <<UrlC, UrlC2>> \in ParsedValuePairs
    /\ pc = "write"
    /\ ret_urls = Extracted["serp2"]
    /\ idx = 8
    /\ InList(UrlA2, Written)
    /\ ~InList(UrlA3, Written)

\* The URL a `/url?q=` anchor points to: the text after the prefix up to
\* the first `&`, percent-decoded.
TargetOf(href) ==
    LET rest == SubSeq(href, 8, Len(href))
        amp == Find(rest, "&", 1)
    IN  unquote(IF amp = 0 THEN rest ELSE SubSeq(rest, 1, amp - 1))

IsRedirect(href) == StartsWith(href, "/url?q=")

IsPlain(href) == StartsWith(href, "http://") \/ StartsWith(href, "https://")

\* out lists, without repetition and in the order of their first
\* occurrence, the values of cand at the positions `at` of the anchors.
FirstOccurrences(out, at, cand(_)) ==
    LET first(x) == CHOOSE i \in at : cand(i) = x /\ \A j \in at : cand(j) = x => i <= j
    IN  /\ \A a, b \in 1..Len(out) : a # b => out[a] # out[b]
        /\ {out[a] : a \in 1..Len(out)} = {cand(i) : i \in at}
        /\ \A a, b \in 1..Len(out) : a < b => first(out[a]) < first(out[b])

\* C14: extract_serp_urls returns, without repetition and in order of first
\* occurrence, the targets of the `/url?q=` anchors if there is any, and the
\* plain http(s) hrefs only if there is none.
C14_ExtractorOrder ==
    fn_pc = "extracted" =>
        LET redirects == {i \in 1..Len(html_hrefs) : IsRedirect(html_hrefs[i])}
            plains == {i \in 1..Len(html_hrefs) : IsPlain(html_hrefs[i])}
        IN  IF redirects # {}
            THEN FirstOccurrences(extract_out, redirects,
                                  LAMBDA i : TargetOf(html_hrefs[i]))
            ELSE FirstOccurrences(extract_out, plains, LAMBDA i : html_hrefs[i])

\* No `/url?q=` anchor and one plain https:// anchor: that URL is the result.
C14_Witness ==
    /\ fn_pc = "extracted"
    /\ html_hrefs = <<"#top", "https://c.org/z">>
    /\ extract_out = <<"https://c.org/z">>

\* The sample URLs urlparse rejects.
Unparsed == {u \in SampleUrls : ~Parses[u]}

UnparsedKeyIsUrl == \A u \in Unparsed : KeyOf[u] = u

\* C15: a URL that does not parse is its own key; the write loop writes it
\* the first time it meets it, never a second time, and goes on to the next
\* URL.
C15_ParseFailOpen ==
    /\ [](/\ UnparsedKeyIsUrl
          /\ \A u \in Unparsed :
                /\ Cardinality({i \in 1..Len(Written) : Written[i] = u}) <= 1
                /\ InList(u, Written) <=> u \in seen_normalized
                /\ (pc = "write" /\ \E i \in 1..(idx - 1) : ret_urls[i] = u)
                       => InList(u, Written))
    /\ [][(pc = "write" /\ idx <= Len(ret_urls) /\ ret_urls[idx] \in Unparsed)
              => /\ pc' = "write"
                 /\ idx' = idx + 1
                 /\ InList(ret_urls[idx], SubSeq(outfile', pre + 1, Len(outfile')))
                 /\ Len(outfile') = Len(outfile)
                        + (IF InList(ret_urls[idx], Written) THEN 0 ELSE 1)]_vars

\* The loop has met the unparseable URL for the second time, has not
\* written it again and is at the next URL.
C15_Witness ==
    /\ pc = "write"
    /\ ret_urls = Extracted["serp2"]
    /\ ret_urls[5] = UrlX
    /\ idx = 6
    /\ InList(UrlX, Written)
    /\ InList(UrlX2, Written)

\* The events of an attempt end with a backoff, the only one among them.
OneBackoffLast(done) ==
    /\ Len(done) > 0
    /\ done[Len(done)] = "backoff"
    /\ Cardinality({i \in 1..Len(done) : done[i] = "backoff"}) = 1

\* C16: every failed attempt, whatever its reason, ends with exactly one
\* backoff, and a navigation that is not the first of its unit starts right
\* after the backoff of the attempt before it.
C16_BackoffBetweenAttempts ==
    /\ []((pc = "fetch" /\ attempt = 1) => evts = <<>>)
    /\ []((pc = "fetch" /\ attempt > 1)
              => (OneBackoffLast(evts) /\ last_err \in FailureReasons))
    /\ [][attempt' = attempt + 1
              => (OneBackoffLast(evts') /\ last_err' \in FailureReasons)]_vars
    /\ [][navs' = navs + 1
              => (pc = "fetch" /\ (attempt > 1 => OneBackoffLast(evts)))]_vars

\* The first attempt navigated and extracted nothing; its backoff is over
\* and the second attempt is about to navigate.
C16_Witness ==
    /\ pc = "fetch"
    /\ args.tries = 2
    /\ attempt = 2
    /\ navs = 1
    /\ last_err = "no-urls"
    /\ evts = <<"goto", "read", "extract", "backoff">>

\* C17: the file only grows, by one line at its end per write, and only
\* the write loop of a unit that returned URLs changes the file or the
\* seen-set: a unit that returns no URLs goes back to main with both as
\* they were.
C17_AppendOnly ==
    /\ [][/\ pre' = pre
          /\ Len(outfile') \in {Len(outfile), Len(outfile) + 1}
          /\ SubSeq(outfile', 1, Len(outfile)) = outfile]_vars
    /\ [][(outfile' # outfile \/ seen_normalized' # seen_normalized)
              => (pc = "write" /\ ret_err = None /\ Len(ret_urls) > 0)]_vars
    /\ [][(pc = "ret" /\ ret_urls = <<>>)
              => /\ pc' = "main"
                 /\ outfile' = outfile
                 /\ seen_normalized' = seen_normalized]_vars

\* The file held a line before the run, the run has written two more, and
\* a unit has just used up its attempts.
C17_Witness ==
    /\ pre = 1
    /\ Len(outfile) = 3
    /\ outfile[1] = UrlA
    /\ pc = "ret"
    /\ ret_urls = <<>>
    /\ ret_err = "captcha-headless"
    /\ attempt > args.tries

\* C18: the seen-set is the set of the keys of the lines this run has
\* written, one key per line; it never shrinks, and it gains a key exactly in
\* the step that writes a line, the key of that line.
C18_SeenIsWrittenKeys ==
    /\ [](/\ seen_normalized = {KeyOf[Written[i]] : i \in 1..Len(Written)}
          /\ Cardinality(seen_normalized) = Len(Written))
    /\ [][/\ seen_normalized \subseteq seen_normalized'
          /\ (seen_normalized' # seen_normalized) <=> (outfile' # outfile)
          /\ (seen_normalized' # seen_normalized)
                 => seen_normalized'
                        = seen_normalized \cup {KeyOf[outfile'[Len(outfile')]]}]_vars

\* Three lines written after the one the file held, three keys seen.
C18_Witness ==
    /\ pc = "write"
    /\ pre = 1
    /\ Len(Written) = 3
    /\ Cardinality(seen_normalized) = 3
    /\ KeyOf[UrlA] \in seen_normalized

\* What the step in which the recovery loop returns success does, within
\* the attempt that was blocked and without a navigation: the page is read
\* and either no-results or the extracted URLs are returned, or nothing is
\* extracted and the attempt fails with no-urls.
RecoveredThenRead ==
    /\ navs' = navs
    /\ InList("read", evts')
    /\ page' # NoPage
    /\ \/ /\ NoResults[page']
          /\ pc' = "ret" /\ ret_err' = "no-results" /\ ret_urls' = <<>>
          /\ attempt' = attempt /\ fails' = fails
       \/ /\ ~NoResults[page'] /\ Len(Extracted[page']) > 0
          /\ pc' = "ret" /\ ret_err' = None /\ ret_urls' = Extracted[page']
          /\ attempt' = attempt /\ fails' = fails
       \/ /\ ~NoResults[page'] /\ Len(Extracted[page']) = 0
          /\ pc' = "fetch" /\ last_err' = "no-urls"
          /\ attempt' = attempt + 1 /\ fails' = fails + 1

\* Reading the page raises: the attempt that was blocked fails with the
\* error, without a navigation.
RecoveredThenError ==
    /\ navs' = navs
    /\ InList("read-error", evts')
    /\ ~InList("read", evts')
    /\ pc' = "fetch" /\ last_err' = "playwright"
    /\ attempt' = attempt + 1 /\ fails' = fails + 1

\* C19 as stated: when the recovery loop returns success on attempt k, the
\* page is read and extracted from within attempt k, and the next
\* navigation follows only if nothing was extracted.
C19_RecoveryReadsAlways ==
    [][(pc = "recover" /\ InList("recovered", evts')) => RecoveredThenRead]_vars

\* C19, amended: the same, unless reading the page raises an error, which
\* is caught and makes attempt k fail.
C19_RecoveryKeepsAttempt ==
    /\ [](InList("recovered", evts) => args.headful)
    /\ [][(pc = "recover" /\ InList("recovered", evts'))
              => (RecoveredThenRead \/ RecoveredThenError)]_vars

\* The first attempt was blocked, recovery succeeded, and the URLs of the
\* page have been returned within the first attempt after one navigation.
C19_Witness ==
    /\ args.headful
    /\ pc = "ret"
    /\ attempt = 1
    /\ navs = 1
    /\ evts = <<"goto", "blocked", "prompt", "recover", "poll", "recovered",
                "read", "extract">>
    /\ Len(ret_urls) > 0
    /\ ret_err = None

\* C20: a result with URLs has no reason and a result with a reason has no
\* URLs; URLs are returned by the first attempt that extracts any, all
\* attempts before it having failed; and after a return nothing navigates
\* until main has left the unit.
C20_FirstSuccessReturns ==
    /\ [](pc \in {"ret", "write"}
              => /\ Len(ret_urls) > 0 => ret_err = None
                 /\ ret_err # None => ret_urls = <<>>)
    /\ []((pc = "ret" /\ Len(ret_urls) > 0)
              => /\ attempt <= args.tries
                 /\ fails = attempt - 1
                 /\ InList("extract", evts)
                 /\ ret_urls = Extracted[page])
    /\ [][(pc \in {"ret", "write"})
              => /\ pc' \in {"write", "main"}
                 /\ navs' <= navs
                 /\ pc' = "main" => (qi' # qi \/ pnum' # pnum)]_vars

\* The first of two tries has extracted URLs and returned them.
C20_Witness ==
    /\ pc = "ret"
    /\ args.tries = 2
    /\ attempt = 1
    /\ navs = 1
    /\ Len(ret_urls) > 0
    /\ ret_err = None


====
